---- MODULE Spec2Model ----
(***************************************************************************)
(* A model of the reflective object mapper (package mapper).               *)
(*                                                                         *)
(* Go values are modelled as records [t |-> type, v |-> payload].  The     *)
(* payload depends on the kind of the type:                                *)
(*   int, bool, string    the TLA+ integer, boolean or string              *)
(*   map                  the name of the map object ("" is the nil map)   *)
(*   time.Time            [sec, nsec]: whole seconds and the sub-second    *)
(*   pointer              [addr, pt]: the cell's address ("" is nil) and   *)
(*                        the value the cell holds                         *)
(*   slice                [isnil, elems]                                   *)
(*   struct               a function from field names to values           *)
(* The mapper never writes through a pointer it was given (it only reads   *)
(* the source and replaces pointers of the target by pointers to cells it  *)
(* allocates), so a cell's content is carried with the pointer.            *)
(***************************************************************************)
EXTENDS Integers, Sequences, FiniteSets, TLC

VARIABLES
  op,                     \* the entry point called: "Map", "MapWithConverters"
  source,                 \* the source argument of the last call
  target,                 \* the caller's target variable
  pre,                    \* the value target held when the last call began
  mode,                   \* how the target was passed: "ptr", "value", "nil",
                          \* "typednil"
  callConverters,         \* the converter table the caller passed
  err,                    \* the error the last call returned
  pc,                     \* "idle", "returned" or "panicked"
  nextAddr,               \* the next address the allocator hands out
  defaultTypeConvertMap,  \* the process-wide default converter table
  defaultTypeTransformFnMap,  \* package objectmapper's process-wide table
  calls,                  \* the number of calls that have returned so far
  running,                \* the calls goroutines are making at the same time
  logged                  \* the lines written to the standard logger

vars == <<op, source, target, pre, mode, callConverters, err, pc, nextAddr,
          defaultTypeConvertMap, defaultTypeTransformFnMap, calls, running,
          logged>>

(***************************************************************************)
(* Bounds of the model.                                                    *)
(***************************************************************************)
MaxLen == 2        \* longest source list
MaxDepth == 2      \* longest chain of non-nil pointers in a source

(***************************************************************************)
(* Types.  A Go type is a record: k is its reflect.Kind, n the string      *)
(* reflect.Type.String() returns for it (the key of the converter table),  *)
(* e the element type of a pointer or slice, f the fields of a struct in   *)
(* declaration order.  A struct type that refers to itself names itself    *)
(* in its own fields by a "named" reference, resolved by NamedTypes.       *)
(***************************************************************************)
Basic(k) == [k |-> k, n |-> k]
NamedString(n) == [k |-> "string", n |-> n]
PtrT(e) == [k |-> "ptr", n |-> "*" \o e.n, e |-> e]
SliceT(e) == [k |-> "slice", n |-> "[]" \o e.n, e |-> e]
StructT(n, f) == [k |-> "struct", n |-> n, f |-> f]
NamedRef(n) == [k |-> "named", n |-> n]

\* A struct field.  A tag is the value of the field's `mapper` struct tag as
\* strings.Split cuts it: a sequence of ";"-separated settings, each the
\* sequence of its ":"-separated parts.
Fld(name, type) == [name |-> name, type |-> type, tag |-> <<>>, exported |-> TRUE]
Tagged(name, type, tag) ==
  [name |-> name, type |-> type, tag |-> tag, exported |-> TRUE]
Unexp(name, type) ==
  [name |-> name, type |-> type, tag |-> <<>>, exported |-> FALSE]

IntT == Basic("int")
BoolT == Basic("bool")
Int64T == Basic("int64")
StringT == Basic("string")
LevelT == NamedString("mapper.level")
JSONStrT == NamedString("mapper.JSONStr")
MapT == [k |-> "map", n |-> "map[string]string"]
TimeT ==
  StructT("time.Time", << Unexp("wall", Basic("uint64")), Unexp("ext", Basic("int64")),
                          Unexp("loc", PtrT(NamedRef("time.Location"))) >>)

PersonT ==
  StructT("mapper.Person", << Fld("ID", IntT),
                              Fld("Child", PtrT(NamedRef("mapper.Person"))),
                              Fld("Secret", LevelT) >>)
PersonDataT ==
  StructT("mapper.PersonData", << Fld("ID", IntT),
                                  Fld("Child", PtrT(NamedRef("mapper.PersonData"))),
                                  Fld("Profession", StringT) >>)
CountryT == StructT("mapper.Country", << Fld("Name", StringT), Fld("Population", IntT) >>)
RegionsT == StructT("mapper.Regions", << Fld("Name", StringT) >>)
ItemT == StructT("mapper.Item", << Fld("ID", IntT) >>)
RecAT ==
  StructT("mapper.RecA", << Fld("N", IntT), Fld("S", StringT), Fld("B", BoolT),
                            Fld("M", MapT) >>)
RecBT ==
  StructT("mapper.RecB", << Fld("P", PtrT(IntT)), Fld("C", ItemT), Fld("T", TimeT),
                            Fld("D", PtrT(TimeT)) >>)
RecLT == StructT("mapper.RecL", << Fld("L", SliceT(ItemT)) >>)
RecQT == StructT("mapper.RecQ", << Fld("Q", SliceT(PtrT(IntT))) >>)
FailSrcT ==
  StructT("mapper.FailSrc", << Fld("Before", IntT), Fld("Items", ItemT),
                               Fld("After", IntT) >>)
GoodSrcT ==
  StructT("mapper.GoodSrc", << Fld("Before", IntT), Fld("Items", SliceT(ItemT)),
                               Fld("After", IntT) >>)
FailTgtT ==
  StructT("mapper.FailTgt", << Fld("Before", IntT), Fld("Items", SliceT(ItemT)),
                               Fld("After", IntT) >>)
NestSrcT ==
  StructT("mapper.NestSrc", << Fld("Name", StringT), Fld("Child", FailSrcT),
                               Fld("Tail", IntT) >>)
NestTgtT ==
  StructT("mapper.NestTgt", << Fld("Name", StringT), Fld("Child", FailTgtT),
                               Fld("Tail", IntT) >>)
NestPtrSrcT ==
  StructT("mapper.NestPtrSrc", << Fld("Name", StringT), Fld("Child", PtrT(FailSrcT)),
                                  Fld("Tail", IntT) >>)
NestPtrTgtT ==
  StructT("mapper.NestPtrTgt", << Fld("Name", StringT), Fld("Child", PtrT(FailTgtT)),
                                  Fld("Tail", IntT) >>)
TagSrcT ==
  StructT("mapper.TagSrc", << Fld("ID", IntT), Fld("Name", StringT),
                              Fld("FamilyName", StringT), Fld("FirstName", StringT),
                              Fld("Score", IntT) >>)
TagTgtT ==
  StructT("mapper.TagTgt",
          << Fld("ID", IntT),
             Tagged("FirstName", StringT, << <<"fromField", "Name">> >>),
             Tagged("LastName", StringT, << <<"fromField", "FamilyName">> >>),
             Tagged("FullName", StringT, << <<"fromMethod", "GetFullName">> >>),
             Tagged("Passed", BoolT,
                    << <<"json", "x">>, <<"fromMethod", "HasPassed">> >>) >>)
\* A target whose directives name a method and a field that TagSrc does not
\* have, on fields whose own names TagSrc does have.
TagMissTgtT ==
  StructT("mapper.TagMissTgt",
          << Fld("ID", IntT),
             Tagged("Name", StringT, << <<"fromMethod", "GetNickname">> >>),
             Tagged("FirstName", StringT, << <<"fromField", "Nickname">> >>) >>)
PtrSrcT ==
  StructT("mapper.PtrSrc", << Fld("Value", PtrT(IntT)), Fld("Tag", PtrT(StringT)),
                              Fld("Score", IntT) >>)
PtrTgtT ==
  StructT("mapper.PtrTgt", << Fld("Value", PtrT(IntT)), Fld("Tag", PtrT(StringT)),
                              Fld("Score", PtrT(IntT)) >>)
CoerceSrcT ==
  StructT("mapper.CoerceSrc", << Fld("ID", IntT), Fld("IsActive", BoolT),
                                 Fld("Level", LevelT) >>)
CoerceTgtT ==
  StructT("mapper.CoerceTgt", << Fld("ID", StringT), Fld("IsActive", StringT),
                                 Fld("Level", StringT) >>)
CountSrcT == StructT("mapper.CountSrc", << Fld("Count", IntT) >>)
CountTgtT == StructT("mapper.CountTgt", << Fld("Count", Int64T) >>)
CustomSrcT ==
  StructT("mapper.CustomSrc", << Fld("Username", StringT), Fld("Items", StringT) >>)
CustomTgtT ==
  StructT("mapper.CustomTgt", << Fld("Username", StringT), Fld("Items", JSONStrT) >>)
HiddenSrcT ==
  StructT("mapper.HiddenSrc", << Unexp("name", StringT), Unexp("age", IntT),
                                 Fld("Name", StringT) >>)
HiddenTgtT ==
  StructT("mapper.HiddenTgt", << Unexp("name", StringT), Unexp("age", IntT) >>)
\* An unexported target field that a directive feeds from an exported source
\* field, and an exported one that a directive feeds from an unexported one.
HiddenTagTgtT ==
  StructT("mapper.HiddenTagTgt",
          << [name |-> "name", type |-> StringT,
              tag |-> << <<"fromField", "Name">> >>, exported |-> FALSE],
             Tagged("Age", IntT, << <<"fromField", "age">> >>) >>)

\* A source whose one field is an optional (a pointer to x), and the target
\* whose field of that name is an x: a scalar, a string, a record, a list,
\* a type a converter serves.
OptSrcT(x) == StructT("mapper.OptSrc:" \o x.n, << Fld("F", PtrT(x)) >>)
OptTgtT(x) == StructT("mapper.OptTgt:" \o x.n, << Fld("F", x) >>)
OptShapes == {IntT, StringT, ItemT, SliceT(ItemT), TimeT}

NamedTypes ==
  ("mapper.Person" :> PersonT) @@ ("mapper.PersonData" :> PersonDataT)

\* reflect.Type.Elem
Elem(t) == IF t.e.k = "named" THEN NamedTypes[t.e.n] ELSE t.e

FieldNames(t) == {t.f[i].name : i \in 1..Len(t.f)}
FieldDecl(t, name) == t.f[CHOOSE i \in 1..Len(t.f) : t.f[i].name = name]

(***************************************************************************)
(* Values: [t |-> type, v |-> payload].  An address is a string: "" is     *)
(* nil, a cell the caller built is named after its type and depth, a cell  *)
(* the mapper allocated after its number.                                  *)
(***************************************************************************)
Val(t, v) == [t |-> t, v |-> v]

\* The zero reflect.Value (IsValid() is false) and the nil interface{}.
Invalid == [t |-> Basic("invalid"), v |-> "invalid"]
NilIface == [t |-> Basic("nil"), v |-> "nil"]

IsValid(x) == x.t.k # "invalid"

NilPtr(t) == Val(t, [addr |-> "", pt |-> NilIface])
PtrTo(t, a, x) == Val(t, [addr |-> a, pt |-> x])
NilSlice(t) == Val(t, [isnil |-> TRUE, elems |-> <<>>])
SliceOf(t, es) == Val(t, [isnil |-> FALSE, elems |-> es])

CallerAddr(t, d) == "caller:" \o t.n \o ":" \o ToString(d)
NewAddr(next) == "new:" \o ToString(next)

ZeroTime == [sec |-> 0, nsec |-> 0]

\* reflect.Zero: the zero value of a type.
RECURSIVE Zero(_)
Zero(t) ==
  CASE t.k \in {"int", "int64", "uint64"} -> Val(t, 0)
    [] t.k = "bool" -> Val(t, FALSE)
    [] t.k = "string" -> Val(t, "")
    [] t.k = "map" -> Val(t, "")
    [] t.k = "ptr" -> NilPtr(t)
    [] t.k = "slice" -> NilSlice(t)
    [] t.n = "time.Time" -> Val(t, ZeroTime)
    [] OTHER -> Val(t, [n \in FieldNames(t) |-> Zero(FieldDecl(t, n).type)])

\* reflect.Value.IsZero
RECURSIVE IsZero(_)
IsZero(x) ==
  CASE x.t.k = "ptr" -> x.v.addr = ""
    [] x.t.k = "slice" -> x.v.isnil
    [] x.t.n = "time.Time" -> x.v = ZeroTime
    [] x.t.k = "struct" -> \A n \in DOMAIN x.v : IsZero(x.v[n])
    [] OTHER -> x = Zero(x.t)

\* reflect.Indirect: the pointee of a pointer (the zero Value for a nil
\* pointer), any other value itself.
Indirect(x) ==
  IF x.t.k # "ptr" THEN x
  ELSE IF x.v.addr = "" THEN Invalid ELSE x.v.pt

(***************************************************************************)
(* Errors (package mapper's error values).                                 *)
(***************************************************************************)
NoErr == [kind |-> "nil"]

\* errors.New("should not be nil") and errors.New("must be a pointer")
ErrUnexpectedNil == [kind |-> "errorString", msg |-> "should not be nil"]
ErrMustBePointer == [kind |-> "errorString", msg |-> "must be a pointer"]

NewParamErrorNotNil(parameterName) ==
  [kind |-> "ParameterError", parameterName |-> parameterName,
   context |-> "cannot not be nil"]

ErrTargetParamNotPointer ==
  [kind |-> "ParameterError", parameterName |-> "target",
   context |-> "must be a pointer"]

\* A variant that hands the cause on without the field's name.
NewFieldError_unwrapped(fieldName, context, e) == e

NewFieldError(fieldName, context, e) ==
  [kind |-> "FieldError", fieldName |-> fieldName, context |-> context, err |-> e]

\* fmt.Errorf("cannot map to a slice from type: %v", typeString)
SliceTypeError(typeString) ==
  [kind |-> "errorString",
   msg |-> "cannot map to a slice from type: " \o typeString]

\* errors.Is(e, sentinel): e is the sentinel itself.  Neither ParameterError
\* nor FieldError declares Unwrap or Is, so there is no chain to follow.
ErrorsIs(e, sentinel) == e = sentinel

\* The Error() text of a ParameterError: "Invalid parameter: <name>\n<context>"
\* (the line break is written "/").
ParameterErrorText(e) ==
  "Invalid parameter: " \o e.parameterName \o "/" \o e.context

(***************************************************************************)
(* Formatting: fmt.Sprintf("%v", x).                                       *)
(***************************************************************************)
RECURSIVE SprintIn(_, _)
SprintSeq(xs, depth) ==
  LET RECURSIVE Join(_)
      Join(i) ==
        IF i > Len(xs) THEN ""
        ELSE (IF i > 1 THEN " " ELSE "") \o SprintIn(xs[i], depth) \o Join(i + 1)
  IN Join(1)

SprintIn(x, depth) ==
  CASE x.t.k \in {"int", "int64", "uint64"} -> ToString(x.v)
    [] x.t.k = "bool" -> IF x.v THEN "true" ELSE "false"
    [] x.t.k = "string" -> x.v
    [] x.t.k = "map" -> IF x.v = "" THEN "map[]" ELSE "map[somekey:someval]"
    [] x.t.k = "ptr" ->
         IF x.v.addr = "" THEN "<nil>"
         ELSE IF depth = 0 /\ x.v.pt.t.k = "struct" /\ x.v.pt.t.n # "time.Time"
              THEN "&" \o SprintIn(x.v.pt, 1)
              ELSE "0xc:" \o x.v.addr
    [] x.t.k = "slice" -> "[" \o SprintSeq(x.v.elems, depth + 1) \o "]"
    [] x.t.n = "time.Time" ->
         "time:" \o ToString(x.v.sec) \o "." \o ToString(x.v.nsec)
    [] OTHER ->
         "{" \o SprintSeq([i \in 1..Len(x.t.f) |-> x.v[x.t.f[i].name]],
                          depth + 1) \o "}"

Sprint(x) == SprintIn(x, 0)

(***************************************************************************)
(* Converters.  A converter table maps a type string to a converter; the   *)
(* converters are named, and ConvApply is what calling one does.           *)
(***************************************************************************)
\* time.Parse(time.RFC3339, t.Format(time.RFC3339)): the RFC3339 layout has
\* whole seconds only, so the sub-second part is gone after the round trip.
FormatParseRFC3339(tm) == [sec |-> tm.sec, nsec |-> 0]

\* The result of fn(value): [panic, val].  The built-in converter asserts
\* value.(time.Time), which panics on any other type.
ConvApply(fn, value) ==
  CASE fn = "timeRFC3339" ->
         IF value.t.n = "time.Time"
         THEN [panic |-> FALSE,
               val |-> Val(value.t, FormatParseRFC3339(value.v))]
         ELSE [panic |-> TRUE, val |-> NilIface]
    [] fn = "timeKeep" ->
         \* a caller's converter: func(v interface{}) interface{} { return v }
         [panic |-> FALSE, val |-> value]
    [] fn = "toJSONStr" ->
         \* a caller's converter: return JSONStr(value.(string))
         IF value.t = StringT
         THEN [panic |-> FALSE, val |-> Val(JSONStrT, value.v)]
         ELSE [panic |-> TRUE, val |-> NilIface]
    [] OTHER -> [panic |-> TRUE, val |-> NilIface]

BuiltinConverters == ("time.Time" :> "timeRFC3339")

\* The merge of MapWithConverters: a fresh table holding the defaults, then
\* the caller's entries over them.
MergeConverters(defaults, converters) ==
  [k \in DOMAIN defaults \cup DOMAIN converters |->
     IF k \in DOMAIN converters THEN converters[k] ELSE defaults[k]]

(***************************************************************************)
(* The Field Resolver.                                                     *)
(***************************************************************************)
\* The exported zero-argument methods of the source types: the receiver
\* ("value" or "pointer") and what a call returns.
Methods(t) ==
  IF t.n = "mapper.TagSrc"
  THEN {[name |-> "GetFullName", recv |-> "pointer"],
        [name |-> "HasPassed", recv |-> "value"]}
  ELSE {}

MethodCall(s, name) ==
  CASE name = "GetFullName" ->
         << Val(StringT, s.v["Name"].v \o " " \o s.v["FamilyName"].v) >>
    [] name = "HasPassed" -> << Val(BoolT, s.v["Score"].v >= 70) >>
    [] OTHER -> << >>

\* reflect.Value.MethodByName on the value itself (viaPtr = FALSE: only the
\* value-receiver methods are in its method set) or on a pointer to a copy
\* of it (viaPtr = TRUE: both kinds are).
MethodByName(s, name, viaPtr) ==
  \E m \in Methods(s.t) : m.name = name /\ (viaPtr \/ m.recv = "value")

Resolved(x, ro) == [panic |-> FALSE, val |-> x, ro |-> ro]
ResolvePanic == [panic |-> TRUE, val |-> Invalid, ro |-> FALSE]

\* A variant that gives an empty string, not the zero Value, for a field the
\* struct does not have.
FieldByName_zero(s, name) ==
  IF s.t.k # "struct" THEN ResolvePanic
  ELSE IF name \notin FieldNames(s.t) THEN Resolved(Val(StringT, ""), FALSE)
  ELSE IF s.t.n = "time.Time"
       THEN Resolved(Val(FieldDecl(s.t, name).type, "unexported"), TRUE)
       ELSE Resolved(s.v[name], ~FieldDecl(s.t, name).exported)

\* reflect.Value.FieldByName: panics unless the value is a struct; the zero
\* Value when there is no such field; a read-only Value (CanInterface() is
\* false) for an unexported field.
FieldByName(s, name) ==
  IF s.t.k # "struct" THEN ResolvePanic
  ELSE IF name \notin FieldNames(s.t) THEN Resolved(Invalid, FALSE)
  ELSE IF s.t.n = "time.Time"
       THEN Resolved(Val(FieldDecl(s.t, name).type, "unexported"), TRUE)
       ELSE Resolved(s.v[name], ~FieldDecl(s.t, name).exported)

\* A variant that looks for the option in lower case.
HasFromFieldPrefix_lower(parts) == parts[1] = "fromfield" /\ Len(parts) >= 2

\* strings.HasPrefix(setting, "fromField:") and
\* strings.HasPrefix(setting, "fromMethod") on a setting cut at its colons.
HasFromFieldPrefix(parts) == parts[1] = "fromField" /\ Len(parts) >= 2
HasFromMethodPrefix(parts) == parts[1] \in {"fromMethod", "fromMethodOf"}

RECURSIVE SettingsFrom(_, _, _)
SettingsFrom(sourceStruct, targetStructField, i) ==
  LET settings == targetStructField.tag IN
  IF i > Len(settings)
  THEN FieldByName(sourceStruct, targetStructField.name)
  ELSE LET parts == settings[i] IN
       CASE HasFromFieldPrefix(parts) -> FieldByName(sourceStruct, parts[2])
         [] ~HasFromFieldPrefix(parts) /\ HasFromMethodPrefix(parts) ->
              IF Len(parts) < 2 \/ ~IsValid(sourceStruct) THEN ResolvePanic
              ELSE IF (MethodByName(sourceStruct, parts[2], FALSE)
                       \/ MethodByName(sourceStruct, parts[2], TRUE))
                      /\ Len(MethodCall(sourceStruct, parts[2])) > 0
                   THEN Resolved(MethodCall(sourceStruct, parts[2])[1], FALSE)
                   ELSE SettingsFrom(sourceStruct, targetStructField, i + 1)
         [] OTHER -> SettingsFrom(sourceStruct, targetStructField, i + 1)

getSourceFieldValue(sourceStruct, targetStructField) ==
  SettingsFrom(sourceStruct, targetStructField, 1)

(***************************************************************************)
(* The Mapper.  Every operator returns what the Go function returns and    *)
(* does: [ret, err] are the two results, tgt the value the target location *)
(* holds afterwards, next the allocator's next address, and panic whether  *)
(* the call panicked (tgt is then what had been written by that time).     *)
(* ro says the target Value was reached through an unexported field:       *)
(* CanSet() is false for it and Interface() panics.                        *)
(***************************************************************************)
Returned(ret, e, tgt, next) ==
  [ret |-> ret, err |-> e, tgt |-> tgt, next |-> next, panic |-> FALSE,
   log |-> <<>>]
Panicked(tgt, next) ==
  [ret |-> NilIface, err |-> NoErr, tgt |-> tgt, next |-> next, panic |-> TRUE,
   log |-> <<>>]

\* case reflect.Invalid: log.Println(line, targetValue), and after the
\* switch targetValue.Interface(), which panics for the zero Value.
InvalidTarget(line, targetValue, next) ==
  [Panicked(targetValue, next) EXCEPT
     !.log = << line \o " <invalid reflect.Value>" >>]

\* return targetValue.Interface(), nil
ReturnInterface(tgt, ro, next) ==
  IF ro THEN Panicked(tgt, next) ELSE Returned(tgt, NoErr, tgt, next)

WithField(tv, name, x) == Val(tv.t, [tv.v EXCEPT ![name] = x])

RECURSIVE mapValues(_, _, _, _, _)
RECURSIVE StructFrom(_, _, _, _, _, _)
RECURSIVE SliceFrom(_, _, _, _, _, _)

mapToString(sourceValue, targetValue, ro, next) ==
  LET sourceValueStr == Val(StringT, Sprint(sourceValue)) IN
  IF ro THEN Panicked(targetValue, next)
  ELSE IF targetValue.t # StringT THEN Panicked(targetValue, next)
  ELSE Returned(sourceValueStr, NoErr, sourceValueStr, next)

\* A variant that never sets the target.
mapDefault_noset(sourceValue, targetValue, ro, next) ==
  IF ro THEN Panicked(targetValue, next)
  ELSE Returned(targetValue, NoErr, targetValue, next)

\* The default case of mapValues: targetValue.Set(sourceValue) when the
\* target can be set; Set panics unless the source's type is the target's.
mapDefault(sourceValue, targetValue, ro, next) ==
  IF ro THEN Panicked(targetValue, next)
  ELSE IF sourceValue.t # targetValue.t THEN Panicked(targetValue, next)
  ELSE Returned(sourceValue, NoErr, sourceValue, next)

\* A variant that also takes a pointer to a zero value for nothing to copy.
NothingToCopy_deref(sourceValue) ==
  IF IsZero(sourceValue) THEN TRUE ELSE IsZero(Indirect(sourceValue))

\* if sourceValue.IsZero() { return nil, nil }
NothingToCopy(sourceValue) == IsZero(sourceValue)

\* A variant that returns the zero value of the pointed-to type, not nil.
NilResult_zero(targetValue, next) ==
  Returned(Zero(Elem(targetValue.t)), NoErr, targetValue, next)

NilResult(targetValue, next) == Returned(NilIface, NoErr, targetValue, next)

\* A variant that allocates the new value and does not map into it.
mapToPointer_flat(sourceValue, targetValue, ro, converters, next) ==
  IF NothingToCopy(sourceValue) THEN NilResult(targetValue, next)
  ELSE Returned(Zero(Elem(targetValue.t)), NoErr, targetValue, next + 1)

mapToPointer(sourceValue, targetValue, ro, converters, next) ==
  IF NothingToCopy(sourceValue) THEN NilResult(targetValue, next)
  ELSE
    LET sourceIndirectValue == Indirect(sourceValue)
        elemType == Elem(targetValue.t)
    IN IF elemType.n \in DOMAIN converters
       THEN LET c == ConvApply(converters[elemType.n], sourceIndirectValue) IN
            IF c.panic THEN Panicked(targetValue, next)
            ELSE Returned(c.val, NoErr, targetValue, next)
       ELSE \* reflect.New takes the cell at address next
            LET r == mapValues(sourceIndirectValue, Zero(elemType), FALSE,
                               converters, next + 1)
            IN IF r.panic THEN Panicked(targetValue, r.next)
               ELSE Returned(r.ret, NoErr, targetValue, r.next)

\* The end of the loop body of mapToStruct: store newValue in the field.
SetField(targetValue, field, newValue, ro, next) ==
  LET fro == ro \/ ~field.exported IN
  IF field.type.k = "ptr"
  THEN \* wrapper := reflect.New(reflect.TypeOf(newValue)), at address next
       IF fro \/ Elem(field.type) # newValue.t THEN Panicked(targetValue, next + 1)
       ELSE Returned(NilIface, NoErr,
                     WithField(targetValue, field.name,
                               PtrTo(field.type, NewAddr(next), newValue)),
                     next + 1)
  ELSE IF fro \/ field.type # newValue.t THEN Panicked(targetValue, next)
       ELSE Returned(NilIface, NoErr,
                     WithField(targetValue, field.name, newValue), next)

\* A variant that never looks a converter up.
FieldStep_recurse(sourceFieldValue, targetFieldValue, fro, converters, next) ==
  mapValues(sourceFieldValue, targetFieldValue, fro, converters, next)

\* What one field's conversion or recursive mapping gives.
FieldStep(sourceFieldValue, targetFieldValue, fro, converters, next) ==
  IF targetFieldValue.t.n \in DOMAIN converters
  THEN LET c == ConvApply(converters[targetFieldValue.t.n], sourceFieldValue) IN
       IF c.panic THEN Panicked(targetFieldValue, next)
       ELSE Returned(c.val, NoErr, targetFieldValue, next)
  ELSE mapValues(sourceFieldValue, targetFieldValue, fro, converters, next)

\* The loop of mapToStruct from field i on.
StructFrom(sourceValue, targetValue, ro, converters, next, i) ==
  IF i > Len(targetValue.t.f) THEN ReturnInterface(targetValue, ro, next)
  ELSE
    LET targetField == targetValue.t.f[i]
        fro == ro \/ ~targetField.exported
        g == getSourceFieldValue(sourceValue, targetField)
    IN IF g.panic THEN Panicked(targetValue, next)
       ELSE IF ~IsValid(g.val) \/ g.ro
       THEN StructFrom(sourceValue, targetValue, ro, converters, next, i + 1)
       ELSE
         LET step == FieldStep(g.val, targetValue.v[targetField.name], fro,
                               converters, next)
             written == WithField(targetValue, targetField.name, step.tgt)
         IN IF step.panic THEN Panicked(written, step.next)
            ELSE IF step.err # NoErr
            THEN Returned(NilIface,
                          NewFieldError(targetField.name,
                                        "invalid field projection", step.err),
                          written, step.next)
            ELSE IF step.ret = NilIface
            THEN StructFrom(sourceValue, written, ro, converters, step.next, i + 1)
            ELSE LET set == SetField(written, targetField, step.ret, ro, step.next)
                 IN IF set.panic THEN set
                    ELSE StructFrom(sourceValue, set.tgt, ro, converters,
                                    set.next, i + 1)

mapToStruct(sourceValue, targetValue, ro, converters, next) ==
  StructFrom(Indirect(sourceValue), targetValue, ro, converters, next, 1)

\* A variant of the loop that stops one element short.
SliceFrom_short(sourceValue, elemType, elems, converters, next, i) ==
  IF i >= Len(sourceValue.v.elems)
  THEN [elems |-> elems, next |-> next, panic |-> FALSE]
  ELSE LET r == mapValues(sourceValue.v.elems[i], Zero(elemType), FALSE,
                          converters, next)
       IN IF r.panic THEN [elems |-> elems, next |-> r.next, panic |-> TRUE]
          ELSE SliceFrom(sourceValue, elemType, Append(elems, r.tgt),
                         converters, r.next, i + 1)

\* The loop of mapToSlice from element i on: elems are the elements of
\* targetSlice mapped so far.  What mapValues returns is dropped.
SliceFrom(sourceValue, elemType, elems, converters, next, i) ==
  IF i > Len(sourceValue.v.elems)
  THEN [elems |-> elems, next |-> next, panic |-> FALSE]
  ELSE LET r == mapValues(sourceValue.v.elems[i], Zero(elemType), FALSE,
                          converters, next)
       IN IF r.panic THEN [elems |-> elems, next |-> r.next, panic |-> TRUE]
          ELSE SliceFrom(sourceValue, elemType, Append(elems, r.tgt),
                         converters, r.next, i + 1)

mapToSlice(sourceValue, targetValue, ro, converters, next) ==
  IF ~IsValid(sourceValue) THEN Returned(NilIface, NoErr, targetValue, next)
  ELSE
    LET src == Indirect(sourceValue) IN
    IF src.t.k # "slice"
    THEN IF ~IsValid(src) THEN Panicked(targetValue, next)
         ELSE Returned(NilIface, SliceTypeError(src.t.n), targetValue, next)
    ELSE
      LET l == SliceFrom(src, Elem(targetValue.t), <<>>, converters, next, 1)
          targetSlice == SliceOf(targetValue.t, l.elems)
      IN IF l.panic \/ ro THEN Panicked(targetValue, l.next)
         ELSE Returned(targetSlice, NoErr, targetSlice, l.next)

mapValues(sourceValue, targetValue, ro, converters, next) ==
  CASE targetValue.t.k = "ptr" ->
         mapToPointer(sourceValue, targetValue, ro, converters, next)
    [] targetValue.t.k = "struct" ->
         mapToStruct(sourceValue, targetValue, ro, converters, next)
    [] targetValue.t.k = "slice" ->
         mapToSlice(sourceValue, targetValue, ro, converters, next)
    [] targetValue.t.k = "string" ->
         mapToString(sourceValue, targetValue, ro, next)
    [] targetValue.t.k = "invalid" ->
         InvalidTarget("mapping invalid value", targetValue, next)
    [] OTHER -> mapDefault(sourceValue, targetValue, ro, next)

(***************************************************************************)
(* The entry points.                                                       *)
(***************************************************************************)
validateParameters(src, tgt) ==
  IF tgt = NilIface THEN NewParamErrorNotNil("target")
  ELSE IF src = NilIface THEN NewParamErrorNotNil("source")
  ELSE IF tgt.t.k # "ptr" THEN ErrTargetParamNotPointer
  ELSE NoErr

\* MapWithConverters(source, target, converters) with the default table as
\* it is now: [err, tgt, next, panic, defaults], tgt being what the cell
\* target points to holds afterwards (the argument itself when it is no
\* pointer) and defaults the default table after the call: the merge writes
\* to the fresh converterFnMap only.
MapWithConverters(src, tgt, converters, defaults, next) ==
  LET e == validateParameters(src, tgt) IN
  IF e # NoErr
  THEN [err |-> e, tgt |-> Indirect(tgt), next |-> next, panic |-> FALSE,
        defaults |-> defaults, log |-> <<>>]
  ELSE LET converterFnMap == MergeConverters(defaults, converters)
           r == mapValues(src, Indirect(tgt), FALSE, converterFnMap, next)
       IN [err |-> r.err, tgt |-> r.tgt, next |-> r.next, panic |-> r.panic,
           defaults |-> defaults, log |-> r.log]

Map(src, tgt, defaults, next) ==
  MapWithConverters(src, tgt, defaults, defaults, next)

(***************************************************************************)
(* Package objectmapper, the earlier implementation.  Its mapValues is one *)
(* function; it looks converters up in the process-wide table itself, it   *)
(* knows no tags, and it neither dereferences a source record nor skips a  *)
(* field the source does not have.  sro says the source Value was reached  *)
(* through an unexported field: Interface() panics for it, and so does a   *)
(* Set from it.                                                            *)
(***************************************************************************)
RECURSIVE objectmapperMapValues(_, _, _, _, _, _)
RECURSIVE objectmapperStructFrom(_, _, _, _, _, _, _)
RECURSIVE objectmapperSliceFrom(_, _, _, _, _, _, _)

\* case reflect.Ptr of mapValues.  IsZero panics on the zero Value.
objectmapperPtr(sourceValue, sro, targetValue, ro, table, next) ==
  IF ~IsValid(sourceValue) THEN Panicked(targetValue, next)
  ELSE IF IsZero(sourceValue) THEN Returned(NilIface, NoErr, targetValue, next)
  ELSE
    LET sourceIndirectValue == Indirect(sourceValue)
        elemType == Elem(targetValue.t)
    IN IF elemType.n \in DOMAIN table
       THEN IF sro THEN Panicked(targetValue, next)
            ELSE LET c == ConvApply(table[elemType.n], sourceIndirectValue) IN
                 IF c.panic THEN Panicked(targetValue, next)
                 ELSE Returned(c.val, NoErr, targetValue, next)
       ELSE LET r == objectmapperMapValues(sourceIndirectValue, sro,
                                           Zero(elemType), FALSE, table, next + 1)
            IN IF r.panic THEN Panicked(targetValue, r.next)
               ELSE Returned(r.ret, NoErr, targetValue, r.next)

\* What one field's conversion or recursive mapping gives.
objectmapperFieldStep(sourceFieldValue, fsro, targetFieldValue, fro, table, next) ==
  IF targetFieldValue.t.n \in DOMAIN table
  THEN IF ~IsValid(sourceFieldValue) \/ fsro THEN Panicked(targetFieldValue, next)
       ELSE LET c == ConvApply(table[targetFieldValue.t.n], sourceFieldValue) IN
            IF c.panic THEN Panicked(targetFieldValue, next)
            ELSE Returned(c.val, NoErr, targetFieldValue, next)
  ELSE objectmapperMapValues(sourceFieldValue, fsro, targetFieldValue, fro,
                             table, next)

\* case reflect.Struct of mapValues, from field i on.
objectmapperStructFrom(sourceValue, sro, targetValue, ro, table, next, i) ==
  IF i > Len(targetValue.t.f) THEN ReturnInterface(targetValue, ro, next)
  ELSE
    LET targetField == targetValue.t.f[i]
        fro == ro \/ ~targetField.exported
        g == FieldByName(sourceValue, targetField.name)
    IN IF g.panic THEN Panicked(targetValue, next)
       ELSE
         LET step == objectmapperFieldStep(g.val, sro \/ g.ro,
                                           targetValue.v[targetField.name], fro,
                                           table, next)
             written == WithField(targetValue, targetField.name, step.tgt)
         IN IF step.panic THEN Panicked(written, step.next)
            ELSE IF step.err # NoErr
            THEN Returned(NilIface,
                          NewFieldError(targetField.name,
                                        "invalid field projection", step.err),
                          written, step.next)
            ELSE IF step.ret = NilIface
            THEN objectmapperStructFrom(sourceValue, sro, written, ro, table,
                                        step.next, i + 1)
            ELSE LET set == SetField(written, targetField, step.ret, ro, step.next)
                 IN IF set.panic THEN set
                    ELSE objectmapperStructFrom(sourceValue, sro, set.tgt, ro,
                                                table, set.next, i + 1)

\* The loop of case reflect.Slice from element i on.
objectmapperSliceFrom(sourceValue, sro, elemType, elems, table, next, i) ==
  IF i > Len(sourceValue.v.elems)
  THEN [elems |-> elems, next |-> next, panic |-> FALSE]
  ELSE LET r == objectmapperMapValues(sourceValue.v.elems[i], sro,
                                      Zero(elemType), FALSE, table, next)
       IN IF r.panic THEN [elems |-> elems, next |-> r.next, panic |-> TRUE]
          ELSE objectmapperSliceFrom(sourceValue, sro, elemType,
                                     Append(elems, r.tgt), table, r.next, i + 1)

objectmapperSlice(sourceValue, sro, targetValue, ro, table, next) ==
  IF ~IsValid(sourceValue) THEN Returned(NilIface, NoErr, targetValue, next)
  ELSE
    LET src == Indirect(sourceValue) IN
    IF src.t.k # "slice"
    THEN IF ~IsValid(src) THEN Panicked(targetValue, next)
         ELSE Returned(NilIface, SliceTypeError(src.t.n), targetValue, next)
    ELSE
      LET l == objectmapperSliceFrom(src, sro, Elem(targetValue.t), <<>>,
                                     table, next, 1)
          targetSlice == SliceOf(targetValue.t, l.elems)
      IN IF l.panic \/ ro THEN Panicked(targetValue, l.next)
         ELSE Returned(targetSlice, NoErr, targetSlice, l.next)

objectmapperMapValues(sourceValue, sro, targetValue, ro, table, next) ==
  CASE targetValue.t.k = "ptr" ->
         objectmapperPtr(sourceValue, sro, targetValue, ro, table, next)
    [] targetValue.t.k = "struct" ->
         objectmapperStructFrom(sourceValue, sro, targetValue, ro, table, next, 1)
    [] targetValue.t.k = "slice" ->
         objectmapperSlice(sourceValue, sro, targetValue, ro, table, next)
    [] targetValue.t.k = "string" ->
         IF ~IsValid(sourceValue) \/ sro THEN Panicked(targetValue, next)
         ELSE mapToString(sourceValue, targetValue, ro, next)
    [] targetValue.t.k = "invalid" ->
         InvalidTarget("invalid value", targetValue, next)
    [] OTHER ->
         IF ~IsValid(sourceValue) \/ sro THEN Panicked(targetValue, next)
         ELSE mapDefault(sourceValue, targetValue, ro, next)

verifyParameters(src, tgt) ==
  IF tgt = NilIface THEN NewParamErrorNotNil("target")
  ELSE IF src = NilIface THEN NewParamErrorNotNil("source")
  ELSE IF tgt.t.k # "ptr" THEN ErrTargetParamNotPointer
  ELSE NoErr

\* var builderMap = defaultTypeTransformFnMap, then builderMap[k] = v for
\* every entry of builders: builderMap IS the process-wide table, so this is
\* what the process-wide table holds after the loop.
MergeBuilders(defaults, builders) ==
  [k \in DOMAIN defaults \cup DOMAIN builders |->
     IF k \in DOMAIN builders THEN builders[k] ELSE defaults[k]]

\* MapWithBuilders(source, target, builders) with the process-wide table as
\* it is now: [err, tgt, next, panic, defaults] as for MapWithConverters.
MapWithBuilders(src, tgt, builders, defaults, next) ==
  LET e == verifyParameters(src, tgt) IN
  IF e # NoErr
  THEN [err |-> e, tgt |-> Indirect(tgt), next |-> next, panic |-> FALSE,
        defaults |-> defaults, log |-> <<>>]
  ELSE LET builderMap == MergeBuilders(defaults, builders)
           r == objectmapperMapValues(src, FALSE, Indirect(tgt), FALSE,
                                      builderMap, next)
       IN [err |-> r.err, tgt |-> r.tgt, next |-> r.next, panic |-> r.panic,
           defaults |-> builderMap, log |-> r.log]

\* objectmapper.Map
objectmapperMap(src, tgt, defaults, next) ==
  MapWithBuilders(src, tgt, defaults, defaults, next)

(***************************************************************************)
(* The values the model passes in.                                         *)
(***************************************************************************)
Ints == {0, 70}
Strs == {"", "John"}
Times == {ZeroTime, [sec |-> 5, nsec |-> 0], [sec |-> 5, nsec |-> 3]}

RECURSIVE Vals(_, _)

\* All sequences of values of type t of length n.
RECURSIVE SeqsOf(_, _, _)
SeqsOf(t, n, d) ==
  IF n = 0 THEN {<<>>}
  ELSE {Append(s, x) : s \in SeqsOf(t, n - 1, d), x \in Vals(t, d)}

\* All assignments of values to the fields i.. of struct type t.
RECURSIVE FieldVals(_, _, _)
FieldVals(t, i, d) ==
  IF i > Len(t.f) THEN {<<>>}
  ELSE {<<x>> \o rest : x \in Vals(t.f[i].type, d), rest \in FieldVals(t, i + 1, d)}

\* The values of type t whose pointer chains are at most d long.
Vals(t, d) ==
  CASE t.k = "int" -> {Val(t, n) : n \in Ints}
    [] t.k = "int64" -> {Val(t, n) : n \in Ints}
    [] t.k = "bool" -> {Val(t, b) : b \in BOOLEAN}
    [] t = StringT -> {Val(t, x) : x \in Strs}
    [] t = LevelT -> {Val(t, "intermediate")}
    [] t = JSONStrT -> {Val(t, "[]")}
    [] t.k = "map" -> {Val(t, m) : m \in {"", "m1"}}
    [] t.n = "time.Time" -> {Val(t, tm) : tm \in Times}
    [] t.k = "ptr" ->
         {NilPtr(t)} \cup
         (IF d = 0 THEN {}
          ELSE {PtrTo(t, CallerAddr(t, d), x) : x \in Vals(Elem(t), d - 1)})
    [] t.k = "slice" ->
         {NilSlice(t)} \cup
         UNION {{SliceOf(t, es) : es \in SeqsOf(Elem(t), n, d)} : n \in 0..MaxLen}
    [] OTHER ->
         {Val(t, [n \in FieldNames(t) |->
                    fs[CHOOSE i \in 1..Len(t.f) : t.f[i].name = n]])
            : fs \in FieldVals(t, 1, d)}

\* A target the caller filled before the call, with values no source holds.
RECURSIVE Populated(_, _)
Populated(t, d) ==
  CASE t.k \in {"int", "int64"} -> Val(t, 9)
    [] t.k = "bool" -> Val(t, TRUE)
    [] t.k = "string" -> Val(t, "old")
    [] t.k = "map" -> Val(t, "m0")
    [] t.n = "time.Time" -> Val(t, [sec |-> 9, nsec |-> 9])
    [] t.k = "ptr" ->
         IF d = 0 THEN NilPtr(t)
         ELSE PtrTo(t, CallerAddr(t, 0), Populated(Elem(t), d - 1))
    [] t.k = "slice" -> SliceOf(t, << Populated(Elem(t), d) >>)
    [] OTHER -> Val(t, [n \in FieldNames(t) |-> Populated(FieldDecl(t, n).type, d)])

\* The types of the caller's target variable, and the types of the source
\* values passed with each.
Pairs ==
  { <<PersonDataT, PersonT>>, <<RecAT, RecAT>>, <<RecBT, RecBT>>,
    <<RecLT, RecLT>>, <<RecQT, RecQT>>,
    <<SliceT(RegionsT), SliceT(CountryT)>>,
    <<SliceT(RegionsT), PtrT(SliceT(CountryT))>>,
    <<SliceT(RegionsT), CountryT>>, <<SliceT(RegionsT), PtrT(CountryT)>>,
    <<FailTgtT, FailSrcT>>, <<FailTgtT, GoodSrcT>>, <<NestTgtT, NestSrcT>>,
    <<TagTgtT, TagSrcT>>, <<PtrTgtT, PtrSrcT>>, <<CoerceTgtT, CoerceSrcT>>,
    <<NestPtrTgtT, NestPtrSrcT>>, <<TagMissTgtT, TagSrcT>>,
    <<PtrT(ItemT), ItemT>>, <<CountTgtT, CountSrcT>>, <<CountTgtT, CountTgtT>>,
    <<BoolT, IntT>>, <<BoolT, BoolT>>,
    <<CustomTgtT, CustomSrcT>>, <<HiddenTgtT, HiddenSrcT>>,
    <<HiddenTagTgtT, HiddenSrcT>> }
  \cup {<<OptTgtT(x), OptSrcT(x)>> : x \in OptShapes}

TargetTypes == {p[1] : p \in Pairs}

Sources ==
  [t \in TargetTypes |->
     UNION {Vals(p[2], MaxDepth) : p \in {q \in Pairs : q[1] = t}}]

InitTargets == [t \in TargetTypes |-> {Zero(t), Populated(t, 1)}]

\* The converter tables callers pass to MapWithConverters.
EmptyTable == [k \in {} |-> "none"]
CallerTables ==
  {EmptyTable, ("time.Time" :> "timeKeep"), ("mapper.JSONStr" :> "toJSONStr")}

\* The target argument of a call: the address of the caller's variable, the
\* variable's value, a nil pointer of the type of that address, or nil.
TargetArg(m, tgt) ==
  CASE m = "ptr" -> PtrTo(PtrT(tgt.t), "caller:target", tgt)
    [] m = "value" -> tgt
    [] m = "typednil" -> NilPtr(PtrT(tgt.t))
    [] OTHER -> NilIface

Modes == {"ptr", "value", "typednil", "nil"}

\* The ways a target variable of type t is passed.  A variable that is a
\* pointer is passed by address only: its value is the address of another
\* variable or a nil pointer, which "ptr" and "typednil" give for a variable
\* of the pointed-to type.
ModesOf(t) == IF t.k = "ptr" THEN Modes \ {"value"} ELSE Modes

\* The goroutines that make calls at the same time, and a goroutine that
\* has not called yet: the call it makes, its arguments, the converter table
\* its mapValues looks into, its own target variable, and where it is.
Goroutines == {"g1", "g2"}
NotStarted ==
  [op |-> "none", src |-> NilIface, converters |-> EmptyTable,
   table |-> EmptyTable, tgt |-> Zero(RecBT), err |-> NoErr, pc |-> "none"]

(***************************************************************************)
(* The state machine: a caller that has built a source and a target (zeroed *)
(* or filled) and makes one call.                                          *)
(***************************************************************************)
Init ==
  /\ \E t \in TargetTypes : target \in InitTargets[t]
  /\ pre = target
  /\ op = "none"
  /\ source = NilIface
  /\ mode = "ptr"
  /\ callConverters = BuiltinConverters
  /\ err = NoErr
  /\ pc = "idle"
  /\ nextAddr = 1
  /\ defaultTypeConvertMap = BuiltinConverters
  /\ defaultTypeTransformFnMap = BuiltinConverters
  /\ calls = 0
  /\ running = [g \in Goroutines |-> NotStarted]
  /\ logged = <<>>

\* The entry points of package mapper and of package objectmapper.
MapperOps == {"Map", "MapWithConverters"}
ObjectmapperOps == {"objectmapper.Map", "MapWithBuilders"}

\* What a call leaves behind.  When the target was passed by address the
\* variable holds what the mapper wrote; otherwise the mapper had no access
\* to it.
Finish(o, src, m, converters, r) ==
  /\ op' = o
  /\ source' = src
  /\ mode' = m
  /\ callConverters' = converters
  /\ pre' = target
  /\ target' = IF m = "ptr" THEN r.tgt ELSE target
  /\ err' = r.err
  /\ pc' = IF r.panic THEN "panicked" ELSE "returned"
  /\ nextAddr' = r.next
  /\ defaultTypeConvertMap' =
       IF o \in MapperOps THEN r.defaults ELSE defaultTypeConvertMap
  /\ defaultTypeTransformFnMap' =
       IF o \in MapperOps THEN defaultTypeTransformFnMap ELSE r.defaults
  /\ logged' = logged \o r.log
  /\ UNCHANGED <<calls, running>>

CanCall == pc = "idle"

\* err := Map(src, target)
MapCall(src, m) ==
  /\ CanCall
  /\ Finish("Map", src, m, defaultTypeConvertMap,
            Map(src, TargetArg(m, target), defaultTypeConvertMap, nextAddr))

\* err := MapWithConverters(src, target, converters)
MapWithConvertersCall(src, m, converters) ==
  /\ CanCall
  /\ Finish("MapWithConverters", src, m, converters,
            MapWithConverters(src, TargetArg(m, target), converters,
                              defaultTypeConvertMap, nextAddr))

Next ==
  \/ \E src \in Sources[target.t] \cup {NilIface}, m \in ModesOf(target.t) :
       MapCall(src, m)
  \/ \E src \in Sources[target.t] \cup {NilIface}, m \in ModesOf(target.t),
        converters \in CallerTables :
       MapWithConvertersCall(src, m, converters)

Spec == Init /\ [][Next]_vars

(***************************************************************************)
(* A caller that makes up to MaxCalls calls, one after the other, to the   *)
(* entry points of both packages, each on what the call before left in the *)
(* target.                                                                 *)
(***************************************************************************)
MaxCalls == 2

\* The sources of these calls: records with a timestamp and an optional
\* timestamp, the two kinds of field the tables' converters feed.
SeqSources ==
  {s \in Vals(RecBT, 1) :
     /\ s.v["P"] = NilPtr(PtrT(IntT)) /\ s.v["C"] = Zero(ItemT)
     /\ s.v["T"].v # ZeroTime
     /\ s.v["D"].v.addr # "" => s.v["D"].v.pt.v = [sec |-> 5, nsec |-> 3]}

SeqInit == Init /\ target.t = RecBT

\* err := objectmapper.Map(src, target)
objectmapperMapCall(src, m) ==
  /\ CanCall
  /\ Finish("objectmapper.Map", src, m, defaultTypeTransformFnMap,
            objectmapperMap(src, TargetArg(m, target),
                            defaultTypeTransformFnMap, nextAddr))

\* err := objectmapper.MapWithBuilders(src, target, builders)
MapWithBuildersCall(src, m, builders) ==
  /\ CanCall
  /\ Finish("MapWithBuilders", src, m, builders,
            MapWithBuilders(src, TargetArg(m, target), builders,
                            defaultTypeTransformFnMap, nextAddr))

\* The caller goes on to its next call.
NextCall ==
  /\ pc = "returned"
  /\ calls + 1 < MaxCalls
  /\ pc' = "idle"
  /\ calls' = calls + 1
  /\ UNCHANGED <<op, source, target, pre, mode, callConverters, err, nextAddr,
                 defaultTypeConvertMap, defaultTypeTransformFnMap, running,
                 logged>>

SeqNext ==
  \/ \E src \in SeqSources, m \in Modes : MapCall(src, m)
  \/ \E src \in SeqSources, m \in Modes, converters \in CallerTables :
       MapWithConvertersCall(src, m, converters)
  \/ \E src \in SeqSources, m \in Modes : objectmapperMapCall(src, m)
  \/ \E src \in SeqSources, m \in Modes, builders \in CallerTables :
       MapWithBuildersCall(src, m, builders)
  \/ NextCall

SpecSeq == SeqInit /\ [][SeqNext]_vars

(***************************************************************************)
(* Goroutines that call the entry points at the same time, each with its   *)
(* own source and its own target variable.  A call is three steps: the     *)
(* merge of the tables (package mapper reads the process-wide table into a *)
(* fresh one; package objectmapper writes the caller's entries into the    *)
(* process-wide one, from the first write to the last), then mapValues.    *)
(* Go maps are not safe for concurrent use: a write that overlaps another  *)
(* goroutine's read or write of the same map is a data race, which the     *)
(* runtime may stop with a fatal error and which otherwise shows the       *)
(* reader the map as it was before or after the write.                     *)
(***************************************************************************)
ConcSources == {s \in SeqSources : s.v["T"].v.nsec = 3}

ConcInit == Init /\ target = Zero(RecBT)

Others ==
  <<op, source, target, pre, mode, callConverters, err, pc, calls, logged>>

\* go Map(src, &tgt), go MapWithConverters(src, &tgt, converters), ...
Go(g, o, src, converters) ==
  /\ running[g].pc = "none"
  /\ running' = [running EXCEPT ![g] =
                   [NotStarted EXCEPT !.op = o, !.src = src,
                                      !.converters = converters, !.pc = "called"]]
  /\ UNCHANGED <<Others, nextAddr, defaultTypeConvertMap, defaultTypeTransformFnMap>>

\* What the call of g was given as its table: Map passes the process-wide
\* table itself.
Builders(g) ==
  CASE running[g].op = "Map" -> defaultTypeConvertMap
    [] running[g].op = "objectmapper.Map" -> defaultTypeTransformFnMap
    [] OTHER -> running[g].converters

\* MapWithConverters up to the end of its merge.
CopyDefaults(g) ==
  /\ running[g].pc = "called" /\ running[g].op \in MapperOps
  /\ LET e == validateParameters(running[g].src,
                                 TargetArg("ptr", running[g].tgt))
     IN running' = [running EXCEPT ![g] =
          IF e # NoErr THEN [@ EXCEPT !.err = e, !.pc = "done"]
          ELSE [@ EXCEPT !.table = MergeConverters(defaultTypeConvertMap, Builders(g)),
                         !.pc = "merged"]]
  /\ UNCHANGED <<Others, nextAddr, defaultTypeConvertMap, defaultTypeTransformFnMap>>

\* MapWithBuilders up to the first write of its merge.
BeginMerge(g) ==
  /\ running[g].pc = "called" /\ running[g].op \in ObjectmapperOps
  /\ LET e == verifyParameters(running[g].src, TargetArg("ptr", running[g].tgt))
     IN running' = [running EXCEPT ![g] =
          IF e # NoErr THEN [@ EXCEPT !.err = e, !.pc = "done"]
          ELSE [@ EXCEPT !.pc = "writing"]]
  /\ UNCHANGED <<Others, nextAddr, defaultTypeConvertMap, defaultTypeTransformFnMap>>

\* The last write of the merge of MapWithBuilders.
EndMerge(g) ==
  /\ running[g].pc = "writing"
  /\ defaultTypeTransformFnMap' =
       MergeBuilders(defaultTypeTransformFnMap, Builders(g))
  /\ running' = [running EXCEPT ![g].pc = "merged"]
  /\ UNCHANGED <<Others, nextAddr, defaultTypeConvertMap>>

\* The tables mapValues of package objectmapper may find when goroutine g
\* looks into the process-wide table.
VisibleTables(g) ==
  {defaultTypeTransformFnMap} \cup
  {MergeBuilders(defaultTypeTransformFnMap, Builders(h)) :
     h \in {x \in Goroutines \ {g} : running[x].pc = "writing"}}

Mapped(g, r, seen) ==
  /\ running' = [running EXCEPT ![g] =
       [@ EXCEPT !.tgt = r.tgt, !.err = r.err, !.table = seen,
                 !.pc = IF r.panic THEN "panicked" ELSE "done"]]
  /\ nextAddr' = r.next

\* mapValues(reflect.ValueOf(source), targetValue, ...) of either package.
MapValuesStep(g) ==
  /\ running[g].pc = "merged"
  /\ IF running[g].op \in MapperOps
     THEN Mapped(g, mapValues(running[g].src, running[g].tgt, FALSE,
                              running[g].table, nextAddr), running[g].table)
     ELSE \E seen \in VisibleTables(g) :
            Mapped(g, objectmapperMapValues(running[g].src, FALSE, running[g].tgt,
                                            FALSE, seen, nextAddr), seen)
  /\ UNCHANGED <<Others, defaultTypeConvertMap, defaultTypeTransformFnMap>>

\* fatal error: concurrent map writes / concurrent map read and map write.
Fatal ==
  /\ \E g, h \in Goroutines :
       /\ g # h
       /\ running[g].pc = "writing"
       /\ running[h].pc \in {"writing", "merged"}
       /\ running[h].op \in ObjectmapperOps
  /\ running' = [g \in Goroutines |-> [running[g] EXCEPT !.pc = "fatal"]]
  /\ UNCHANGED <<Others, nextAddr, defaultTypeConvertMap, defaultTypeTransformFnMap>>

ConcNext ==
  \/ \E g \in Goroutines, src \in ConcSources :
       \/ Go(g, "Map", src, EmptyTable)
       \/ Go(g, "objectmapper.Map", src, EmptyTable)
       \/ \E converters \in CallerTables :
            \/ Go(g, "MapWithConverters", src, converters)
            \/ Go(g, "MapWithBuilders", src, converters)
  \/ \E g \in Goroutines : CopyDefaults(g)
  \/ \E g \in Goroutines : BeginMerge(g)
  \/ \E g \in Goroutines : EndMerge(g)
  \/ \E g \in Goroutines : MapValuesStep(g)
  \/ Fatal

SpecConc == ConcInit /\ [][ConcNext]_vars

(***************************************************************************)
(* What the properties below speak of.                                     *)
(***************************************************************************)
\* The source record: the source argument, read through a pointer to it.
SourceRecord == Indirect(source)

\* A call has returned no error, the target having been passed by address.
Succeeded == pc = "returned" /\ mode = "ptr" /\ err = NoErr
MapSucceeded == op = "Map" /\ Succeeded

\* A call mapped a record into a record.
RecordToRecord == target.t.k = "struct" /\ SourceRecord.t.k = "struct"

\* The untagged exported fields of target type tt that source type st
\* declares with the same name and the same declared type.
SharedFields(st, tt) ==
  {n \in FieldNames(tt) \cap FieldNames(st) :
     /\ FieldDecl(tt, n).tag = <<>>
     /\ FieldDecl(tt, n).exported /\ FieldDecl(st, n).exported
     /\ FieldDecl(tt, n).type = FieldDecl(st, n).type}

\* a and b hold the same content: pointers are compared by what they point
\* to, lists by their elements.
RECURSIVE SameValue(_, _)
SameValue(a, b) ==
  CASE a.t.k = "ptr" ->
         /\ (a.v.addr = "") = (b.v.addr = "")
         /\ a.v.addr # "" => SameValue(a.v.pt, b.v.pt)
    [] a.t.k = "slice" ->
         /\ Len(a.v.elems) = Len(b.v.elems)
         /\ \A i \in 1..Len(a.v.elems) : SameValue(a.v.elems[i], b.v.elems[i])
    [] a.t.k = "struct" /\ a.t.n # "time.Time" ->
         \A n \in FieldNames(a.t) : SameValue(a.v[n], b.v[n])
    [] OTHER -> a.v = b.v

\* b is what copying a into a location that held old leaves there: a scalar,
\* string or map is a itself; a timestamp is a cut to whole seconds; an empty
\* optional leaves old, a non-empty one gives a cell of the mapper's holding
\* the copy of its content; a record is copied field by field into old; a
\* list is a new list as long as a, its records copied into zeroed elements
\* and its optionals left empty.
RECURSIVE CopiedAs(_, _, _)
CopiedAs(a, b, old) ==
  CASE a.t.n = "time.Time" -> b.v = [sec |-> a.v.sec, nsec |-> 0]
    [] a.t.k = "ptr" ->
         IF a.v.addr = "" THEN b = old
         ELSE /\ b.v.addr \notin {"", a.v.addr, old.v.addr}
              /\ CopiedAs(a.v.pt, b.v.pt, Zero(a.v.pt.t))
    [] a.t.k = "slice" ->
         /\ ~b.v.isnil
         /\ Len(b.v.elems) = Len(a.v.elems)
         /\ \A i \in 1..Len(a.v.elems) :
              IF Elem(a.t).k = "ptr" THEN b.v.elems[i] = NilPtr(Elem(a.t))
              ELSE CopiedAs(a.v.elems[i], b.v.elems[i], Zero(Elem(a.t)))
    [] a.t.k = "struct" ->
         \A n \in FieldNames(a.t) : CopiedAs(a.v[n], b.v[n], old.v[n])
    [] OTHER -> b.v = a.v

UnfedFields(st, tt) ==
  {n \in FieldNames(tt) : FieldDecl(tt, n).tag = <<>> /\ n \notin FieldNames(st)}

\* The fields of target type tt that are pointers to records and are fed by
\* a same-named pointer to a record of source type st.
ChildFields(st, tt) ==
  {n \in FieldNames(tt) \cap FieldNames(st) :
     /\ FieldDecl(tt, n).tag = <<>>
     /\ FieldDecl(tt, n).type.k = "ptr" /\ FieldDecl(st, n).type.k = "ptr"
     /\ Elem(FieldDecl(tt, n).type).k = "struct"
     /\ Elem(FieldDecl(st, n).type).k = "struct"}

\* C2: a call never writes a target field that has no same-named source
\* field and no redirection: whether the call returned or not the field
\* holds the value it held before the call, and in a record the call
\* allocated it holds its zero value; source fields the target has no
\* counterpart for raise no error: an error names a target field that is fed.
C2_UnfedFieldsKept ==
  (pc # "idle" /\ mode = "ptr" /\ RecordToRecord) =>
    /\ \A n \in UnfedFields(SourceRecord.t, target.t) : target.v[n] = pre.v[n]
    /\ \A n \in ChildFields(SourceRecord.t, target.t) :
         (target.v[n] # pre.v[n]) =>
           \A m \in UnfedFields(Elem(FieldDecl(SourceRecord.t, n).type),
                                Elem(FieldDecl(target.t, n).type)) :
             IsZero(target.v[n].v.pt.v[m])
    /\ (pc = "returned" /\ err # NoErr) =>
         /\ err.kind = "FieldError"
         /\ err.fieldName \in
              FieldNames(target.t) \ UnfedFields(SourceRecord.t, target.t)

\* A call that returned no error for a source with a field the target lacks
\* (Secret), wrote the fed field ID and left the unfed field Profession as it
\* was, at the top and in the record allocated for Child.
C2_Witness ==
  /\ Succeeded
  /\ target.t = PersonDataT
  /\ "Secret" \in DOMAIN SourceRecord.v
  /\ "Profession" \in UnfedFields(SourceRecord.t, target.t)
  /\ pre.v["Profession"].v = "old"
  /\ target.v["Profession"].v = "old"
  /\ target.v["ID"] # pre.v["ID"]
  /\ target.v["Child"].v.addr \notin {"", pre.v["Child"].v.addr}
  /\ target.v["Child"].v.pt.v["Profession"].v = ""

(***************************************************************************)
(* C3 and C4.                                                              *)
(***************************************************************************)
\* The optional fields of target type tt fed by a same-named optional field
\* of source type st.
OptionalFields(st, tt) ==
  {n \in FieldNames(tt) \cap FieldNames(st) :
     /\ FieldDecl(tt, n).tag = <<>>
     /\ FieldDecl(tt, n).type.k = "ptr" /\ FieldDecl(st, n).type.k = "ptr"}

\* No pointer-shaped location lies in a value of type t.
RECURSIVE PointerFree(_)
PointerFree(t) ==
  CASE t.k = "ptr" -> FALSE
    [] t.k = "slice" -> PointerFree(Elem(t))
    [] t.k = "struct" /\ t.n # "time.Time" ->
         \A i \in 1..Len(t.f) : PointerFree(t.f[i].type)
    [] OTHER -> TRUE

\* Every pointer-shaped location of the target record is one of its own
\* fields, and each of them is fed by a source field that is empty or zero.
NothingToAllocate ==
  \A i \in 1..Len(target.t.f) :
    LET f == target.t.f[i] IN
    IF f.type.k = "ptr"
    THEN /\ f.tag = <<>>
         /\ f.name \in FieldNames(SourceRecord.t) => IsZero(SourceRecord.v[f.name])
    ELSE PointerFree(f.type)

\* C3 as stated: after a successful call every target optional field whose
\* feeding source optional field is empty is empty, whatever it held before.
C3_EmptyOptionalEmpties ==
  (Succeeded /\ RecordToRecord) =>
    \A n \in OptionalFields(SourceRecord.t, target.t) :
      SourceRecord.v[n].v.addr = "" => target.v[n].v.addr = ""

\* C3 as amended: after a successful call every target optional field whose
\* feeding source optional field is empty holds exactly what it held before
\* the call (so it is empty when it was empty before), and nothing is
\* allocated for it: a call all of whose optional fields are so fed
\* allocates no cell.
C3_EmptyOptionalSkipped ==
  (Succeeded /\ RecordToRecord) =>
    /\ \A n \in OptionalFields(SourceRecord.t, target.t) :
         SourceRecord.v[n].v.addr = "" => target.v[n] = pre.v[n]
    /\ NothingToAllocate => nextAddr = 1

\* A successful call with an empty source optional over a filled target
\* optional, and one over an empty target optional.
C3_Witness ==
  /\ Succeeded
  /\ target.t = PtrTgtT
  /\ SourceRecord.v["Value"].v.addr = ""
  /\ pre.v["Value"].v.addr # ""
  /\ target.v["Value"] = pre.v["Value"]
  /\ SourceRecord.v["Tag"].v.addr = ""
  /\ NothingToAllocate
  /\ nextAddr = 1

\* The table a call looks converters up in.
ConverterFnMap == MergeConverters(defaultTypeConvertMap, callConverters)

\* What mapping V to a pointer-shaped location of element type t yields,
\* cells being allocated from address k on.
MappedValue(V, t, k) ==
  IF t.n \in DOMAIN ConverterFnMap
  THEN ConvApply(ConverterFnMap[t.n], V).val
  ELSE mapValues(V, Zero(t), FALSE, ConverterFnMap, k).ret

\* C4: after a successful call every target optional field whose feeding
\* source optional field holds a value V (the zero value of its type
\* included) is non-empty and points to a cell allocated during the call,
\* which is neither the source's cell nor the cell the field pointed to before,
\* and whose content is the recursively mapped V.
C4_FreshCell ==
  (Succeeded /\ RecordToRecord) =>
    \A n \in OptionalFields(SourceRecord.t, target.t) :
      SourceRecord.v[n].v.addr # "" =>
        LET cell == target.v[n].v IN
        /\ cell.addr \in {NewAddr(i) : i \in 1..(nextAddr - 1)}
        /\ cell.addr \notin {"", SourceRecord.v[n].v.addr, pre.v[n].v.addr}
        /\ \E k \in 1..nextAddr :
             cell.pt = MappedValue(SourceRecord.v[n].v.pt,
                                   Elem(FieldDecl(target.t, n).type), k)

\* A successful call whose source optional holds the zero value 0, over a
\* target optional that pointed to 9: the target points to a new cell
\* holding 0.
C4_Witness ==
  /\ Succeeded
  /\ target.t = PtrTgtT
  /\ SourceRecord.v["Value"].v.addr # ""
  /\ SourceRecord.v["Value"].v.pt.v = 0
  /\ pre.v["Value"].v.addr # ""
  /\ pre.v["Value"].v.pt.v = 9
  /\ target.v["Value"].v.pt.v = 0
  /\ target.v["Value"].v.addr \notin
       {"", SourceRecord.v["Value"].v.addr, pre.v["Value"].v.addr}

(***************************************************************************)
(* C5.                                                                     *)
(***************************************************************************)
\* to is the list mapping gives for the source list from: as long as from,
\* its element i being what mapping from's element i into a zeroed element
\* leaves there.
ListMapped(from, to) ==
  /\ Len(to.v.elems) = Len(from.v.elems)
  /\ \A i \in 1..Len(from.v.elems) :
       \E k \in 1..nextAddr :
         to.v.elems[i] = mapValues(from.v.elems[i], Zero(Elem(to.t)), FALSE,
                                   ConverterFnMap, k).tgt

\* The list-of-records fields of target type tt fed by a same-named list
\* field of source type st.
ListFields(st, tt) ==
  {n \in FieldNames(tt) \cap FieldNames(st) :
     /\ FieldDecl(tt, n).tag = <<>>
     /\ FieldDecl(tt, n).type.k = "slice" /\ FieldDecl(st, n).type.k = "slice"
     /\ Elem(FieldDecl(tt, n).type).k = "struct"}

\* C5: mapping a source list of N records, given directly or through a
\* pointer, into a list target (the top-level target or a list field of a
\* target record) gives a list of exactly N records whatever the target
\* list held before, element i being the mapping of source element i alone.
C5_ListLengthAndOrder ==
  /\ (Succeeded /\ target.t.k = "slice" /\ SourceRecord.t.k = "slice") =>
       /\ ListMapped(SourceRecord, target)
       /\ \A i \in 1..Len(target.v.elems) :
            target.v.elems[i].v["Name"].v = SourceRecord.v.elems[i].v["Name"].v
  /\ (Succeeded /\ RecordToRecord) =>
       \A n \in ListFields(SourceRecord.t, target.t) :
         ListMapped(SourceRecord.v[n], target.v[n])

\* A successful call that mapped a list of two different records, given
\* through a pointer, over a target list that held one record.
C5_Witness ==
  /\ Succeeded
  /\ target.t.k = "slice"
  /\ source.t.k = "ptr"
  /\ Len(pre.v.elems) = 1
  /\ Len(SourceRecord.v.elems) = 2
  /\ Len(target.v.elems) = 2
  /\ target.v.elems[1].v["Name"].v = "John"
  /\ target.v.elems[2].v["Name"].v = ""

(***************************************************************************)
(* C6.                                                                     *)
(***************************************************************************)
\* C6: after a successful call a field tagged fromField:X holds the value of
\* source field X and a field tagged fromMethod:Y the first result of the
\* source's method Y, declared on a pointer receiver (GetFullName) or on a
\* value receiver (HasPassed), whatever the target field is called and also
\* when the source has a field of the target field's name (FirstName).
C6_Redirected ==
  (Succeeded /\ target.t = TagTgtT) =>
    LET s == SourceRecord.v
        t == target.v
    IN /\ t["FirstName"].v = s["Name"].v
       /\ t["LastName"].v = s["FamilyName"].v
       /\ t["FullName"].v = s["Name"].v \o " " \o s["FamilyName"].v
       /\ t["Passed"].v = (s["Score"].v >= 70)

\* A successful call whose source holds different values in Name and in
\* FirstName, over a filled target.
C6_Witness ==
  /\ Succeeded
  /\ target.t = TagTgtT
  /\ pre = Populated(TagTgtT, 1)
  /\ SourceRecord.v["Name"].v = "John"
  /\ SourceRecord.v["FirstName"].v = ""
  /\ target.v["FirstName"].v = "John"
  /\ target.v["FullName"].v = "John John"
  /\ ~target.v["Passed"].v

(***************************************************************************)
(* C7, C8 and C9.                                                          *)
(***************************************************************************)
\* C7: a call with a nil target or a nil source returns the error
\* ErrUnexpectedNil, and the nil checks come first: a nil source with a
\* target that is no pointer does not get the must-be-pointer error.
C7_NilArgumentError ==
  (pc = "returned" /\ (mode = "nil" \/ source = NilIface)) =>
    /\ ErrorsIs(err, ErrUnexpectedNil)
    /\ ~ErrorsIs(err, ErrMustBePointer)
    /\ err # ErrTargetParamNotPointer

\* C8: a call with a non-nil source and a target that is no pointer returns
\* the error ErrMustBePointer, whose text holds "must be a pointer", and
\* writes nothing to the target.
C8_MustBePointerError ==
  (pc = "returned" /\ mode = "value" /\ source # NilIface) =>
    /\ ErrorsIs(err, ErrMustBePointer)
    /\ target = pre
    /\ nextAddr = 1

\* C9: a call with a list target and a source that, after pointer
\* indirection, is no list does not panic: it returns the type-mismatch
\* error naming the source's type and leaves the target list as it was.
C9_TypeMismatchError ==
  (pc # "idle" /\ mode = "ptr" /\ target.t.k = "slice" /\ source # NilIface
     /\ SourceRecord.t.k # "slice") =>
    /\ pc = "returned"
    /\ err = SliceTypeError(SourceRecord.t.n)
    /\ target = pre

(***************************************************************************)
(* C10.                                                                    *)
(***************************************************************************)
\* The position of the field called name in struct type t.
FieldIndex(t, name) == CHOOSE i \in 1..Len(t.f) : t.f[i].name = name

\* The fields of t declared before field F hold their mapped values.
EarlierFieldsSet(s, t, old, F) ==
  \A i \in 1..(FieldIndex(t.t, F) - 1) :
    LET n == t.t.f[i].name IN
    n \in SharedFields(s.t, t.t) => CopiedAs(s.v[n], t.v[n], old.v[n])

\* The fields of t declared after field F hold what they held before.
LaterFieldsKept(t, old, F) ==
  \A i \in (FieldIndex(t.t, F) + 1)..Len(t.t.f) :
    t.v[t.t.f[i].name] = old.v[t.t.f[i].name]

\* C10 as stated: when populating field F fails the call returns a field
\* error carrying F's name; the fields before F hold their mapped values,
\* and F and the fields after F hold the values they had before the call.
C10_FailedFieldUntouched ==
  (pc = "returned" /\ mode = "ptr" /\ RecordToRecord /\ err # NoErr) =>
    /\ err.kind = "FieldError"
    /\ err.fieldName \in FieldNames(target.t)
    /\ EarlierFieldsSet(SourceRecord, target, pre, err.fieldName)
    /\ LaterFieldsKept(target, pre, err.fieldName)
    /\ target.v[err.fieldName] = pre.v[err.fieldName]

\* Record t, which held old, was left by a mapping from s that failed with
\* error e: e is a field error naming a field F of t, the fields before F
\* are set, the fields after F are as before, and F is as before unless it
\* is a nested record, which was left in this same way by the failure e
\* wraps.
RECURSIVE StoppedAt(_, _, _, _)
StoppedAt(s, t, old, e) ==
  /\ e.kind = "FieldError"
  /\ e.context = "invalid field projection"
  /\ e.fieldName \in FieldNames(t.t)
  /\ EarlierFieldsSet(s, t, old, e.fieldName)
  /\ LaterFieldsKept(t, old, e.fieldName)
  /\ IF FieldDecl(t.t, e.fieldName).type.k = "struct"
     THEN StoppedAt(s.v[e.fieldName], t.v[e.fieldName], old.v[e.fieldName], e.err)
     ELSE t.v[e.fieldName] = old.v[e.fieldName]

\* C10 as amended: when populating field F fails the call returns a field
\* error carrying F's name; the fields before F hold their mapped values and
\* the fields after F the values they had before the call; F holds the value
\* it had before the call too, unless F is a nested record held by value:
\* that record is left partially populated in the same way, its fields
\* before the failing one set and the failing one and those after it as
\* before the call.
C10_FailedFieldStops ==
  (pc = "returned" /\ mode = "ptr" /\ RecordToRecord /\ err # NoErr) =>
    StoppedAt(SourceRecord, target, pre, err)

\* A call that failed in the list field Items of the nested record Child,
\* over a filled target: Name and Child.Before are set, Child.Items,
\* Child.After and Tail are as before.
C10_Witness ==
  /\ pc = "returned" /\ mode = "ptr"
  /\ target.t = NestTgtT
  /\ pre = Populated(NestTgtT, 1)
  /\ err.kind = "FieldError" /\ err.fieldName = "Child"
  /\ err.err.kind = "FieldError" /\ err.err.fieldName = "Items"
  /\ target.v["Name"] = SourceRecord.v["Name"]
  /\ target.v["Child"].v["Before"] = SourceRecord.v["Child"].v["Before"]
  /\ target.v["Child"].v["Before"] # pre.v["Child"].v["Before"]
  /\ target.v["Child"].v["Items"] = pre.v["Child"].v["Items"]
  /\ target.v["Child"].v["After"] = pre.v["Child"].v["After"]
  /\ target.v["Tail"] = pre.v["Tail"]
  /\ target.v["Tail"] # SourceRecord.v["Tail"]

(***************************************************************************)
(* C11.  The process-wide default tables across a sequence of calls.       *)
(***************************************************************************)
\* What a Map call of the package of op makes of source and the target as it
\* was, with the table that package starts with.
MapOnBuiltinTable ==
  IF op = "Map"
  THEN Map(source, TargetArg(mode, pre), BuiltinConverters, 1)
  ELSE objectmapperMap(source, TargetArg(mode, pre), BuiltinConverters, 1)

\* A Map call that is not the caller's first has returned.
LaterMapReturned ==
  pc = "returned" /\ calls > 0 /\ op \in {"Map", "objectmapper.Map"} /\ mode = "ptr"

\* C11: whatever calls were made, with whatever converter tables, each
\* package's process-wide default table holds what it held at the start, and
\* a later Map call gives what a Map call gives on the starting table.
C11_DefaultTableKept ==
  /\ defaultTypeConvertMap = BuiltinConverters
  /\ defaultTypeTransformFnMap = BuiltinConverters
  /\ LaterMapReturned =>
       /\ err = MapOnBuiltinTable.err
       /\ SameValue(target, MapOnBuiltinTable.tgt)


(***************************************************************************)
(* C12.  Calls running at the same time.                                   *)
(***************************************************************************)
\* What the call of goroutine g gives when no other call runs.
Alone(g) ==
  IF running[g].op \in MapperOps
  THEN MapWithConverters(running[g].src, TargetArg("ptr", Zero(RecBT)),
                         IF running[g].op = "Map" THEN BuiltinConverters
                         ELSE running[g].converters,
                         BuiltinConverters, 1)
  ELSE MapWithBuilders(running[g].src, TargetArg("ptr", Zero(RecBT)),
                       IF running[g].op = "objectmapper.Map" THEN BuiltinConverters
                       ELSE running[g].converters,
                       BuiltinConverters, 1)

\* The table a call's mapValues is to look into: the built-in entries and
\* over them the entries this call was given.
OwnTable(g) ==
  MergeConverters(BuiltinConverters,
                  IF running[g].op \in {"Map", "objectmapper.Map"}
                  THEN BuiltinConverters ELSE running[g].converters)

\* C12: calls running at the same time on their own sources and targets
\* share no mutable state: none writes a process-wide default table, none
\* is stopped by the runtime for a concurrent map access, the table a call
\* looks into holds its own entries only, and each call leaves in its target
\* what it leaves when it runs alone.
C12_NoSharedState ==
  /\ defaultTypeConvertMap = BuiltinConverters
  /\ defaultTypeTransformFnMap = BuiltinConverters
  /\ \A g \in Goroutines :
       /\ running[g].pc # "fatal"
       /\ running[g].pc = "done" =>
            /\ running[g].table = OwnTable(g)
            /\ running[g].err = Alone(g).err
            /\ SameValue(running[g].tgt, Alone(g).tgt)

(***************************************************************************)
(* C13.  A target type that needs a converter and has none.                *)
(***************************************************************************)
\* The fields of the target record that are of a named string type no
\* converter of this call serves, and that a plain string of the source
\* feeds.
ConverterlessFields ==
  IF ~RecordToRecord THEN {}
  ELSE {n \in FieldNames(target.t) :
          LET tf == FieldDecl(target.t, n)
              g == getSourceFieldValue(SourceRecord, tf)
          IN /\ tf.type.k = "string" /\ tf.type # StringT
             /\ tf.type.n \notin DOMAIN ConverterFnMap
             /\ ~g.panic /\ IsValid(g.val) /\ ~g.ro
             /\ g.val.t = StringT}

\* A call of package mapper was made with the target passed by address.
MapperCalled == op \in MapperOps /\ mode = "ptr" /\ pc # "idle"

\* C13: a call that meets a target field whose type needs a converter none
\* is registered for returns a MissingConverter error; it does not panic.
C13_MissingConverterError ==
  MapperCalled /\ ConverterlessFields # {} =>
    pc = "returned" /\ err.kind = "MissingConverter"

(***************************************************************************)
(* C14.  An empty optional of the source feeding a target field.           *)
(***************************************************************************)
\* The fields of the target record that the source feeds with a nil pointer.
EmptyOptionalFed ==
  IF ~RecordToRecord THEN {}
  ELSE {n \in FieldNames(target.t) :
          LET g == getSourceFieldValue(SourceRecord, FieldDecl(target.t, n))
          IN ~g.panic /\ IsValid(g.val) /\ ~g.ro
             /\ g.val.t.k = "ptr" /\ g.val.v.addr = ""}

\* x is the zero value of its type, or a list without elements.
ZeroOrEmpty(x) ==
  IF x.t.k = "slice" THEN x.v.elems = <<>> ELSE x = Zero(x.t)

\* C14: whatever the shape of the target field, a call whose source feeds it
\* with an empty optional returns without a fault and without an error, and
\* the field is zero-valued or empty afterwards.
C14_EmptyOptionalNoFault ==
  MapperCalled /\ EmptyOptionalFed # {} =>
    /\ pc = "returned" /\ err = NoErr
    /\ \A n \in EmptyOptionalFed : ZeroOrEmpty(target.v[n])

(***************************************************************************)
(* C15.  Unexported fields.                                                *)
(***************************************************************************)
\* The unexported fields of the target record, and its fields that resolve
\* to an unexported field of the source.
HiddenTargetFields ==
  {n \in FieldNames(target.t) : ~FieldDecl(target.t, n).exported}
HiddenSourceFed ==
  {n \in FieldNames(target.t) :
     LET g == getSourceFieldValue(SourceRecord, FieldDecl(target.t, n))
     IN ~g.panic /\ IsValid(g.val) /\ g.ro}

\* C15: a call on records with unexported fields returns without a fault and
\* without an error; the target's unexported fields, and the fields an
\* unexported source field would feed, hold what they held before.
C15_UnexportedSkipped ==
  MapperCalled /\ RecordToRecord
    /\ HiddenTargetFields \cup HiddenSourceFed # {} =>
      /\ pc = "returned" /\ err = NoErr
      /\ \A n \in HiddenTargetFields \cup HiddenSourceFed : target.v[n] = pre.v[n]

(***************************************************************************)
(* C16.  Converter dispatch.                                               *)
(***************************************************************************)
Resolves(g) == ~g.panic /\ IsValid(g.val) /\ ~g.ro

\* C16: after a successful call, a target field whose declared type has a
\* converter in the call's table holds exactly what that converter gives for
\* the resolved source value, whatever the source's type; a pointer-shaped
\* target field whose pointed-to type has a converter, fed by a non-zero
\* source value, points to a cell allocated during the call that holds what
\* that converter gives for the dereferenced source value.
C16_ConverterByTargetType ==
  (Succeeded /\ RecordToRecord) =>
    \A n \in FieldNames(target.t) :
      LET tf == FieldDecl(target.t, n)
          g == getSourceFieldValue(SourceRecord, tf)
      IN Resolves(g) =>
           /\ tf.type.n \in DOMAIN ConverterFnMap =>
                target.v[n] = ConvApply(ConverterFnMap[tf.type.n], g.val).val
           /\ ( /\ tf.type.k = "ptr"
                /\ tf.type.n \notin DOMAIN ConverterFnMap
                /\ Elem(tf.type).n \in DOMAIN ConverterFnMap
                /\ ~IsZero(g.val) ) =>
                  /\ target.v[n].v.addr \in {NewAddr(i) : i \in 1..(nextAddr - 1)}
                  /\ target.v[n].v.addr # pre.v[n].v.addr
                  /\ target.v[n].v.pt =
                       ConvApply(ConverterFnMap[Elem(tf.type).n],
                                 Indirect(g.val)).val

\* A successful MapWithConverters call with the caller's converter for
\* time.Time, which hands its argument back: the timestamp field and the
\* cell of the optional timestamp field hold the source's 5s+3ns, which the
\* built-in converter would have cut to 5s.
C16_Witness ==
  /\ Succeeded /\ op = "MapWithConverters"
  /\ target.t = RecBT
  /\ callConverters = ("time.Time" :> "timeKeep")
  /\ source.v["T"].v = [sec |-> 5, nsec |-> 3]
  /\ target.v["T"].v = [sec |-> 5, nsec |-> 3]
  /\ source.v["D"].v.addr # ""
  /\ target.v["D"].v.addr = NewAddr(1)
  /\ target.v["D"].v.pt.v = [sec |-> 5, nsec |-> 3]

(***************************************************************************)
(* C17.  The round trip.                                                   *)
(***************************************************************************)
\* Record types with the same fields: the same names with the same declared
\* types, in any order.
SameFieldSets(st, tt) ==
  /\ st.k = "struct" /\ tt.k = "struct"
  /\ FieldNames(st) = FieldNames(tt)
  /\ \A n \in FieldNames(st) : FieldDecl(st, n).type = FieldDecl(tt, n).type

\* A Map call has mapped a record a into a zeroed record b of a type with
\* the same fields.
FirstLegDone ==
  /\ MapSucceeded /\ pre = Zero(target.t)
  /\ SameFieldSets(source.t, target.t)

\* Map(b, &a2) with a2 a zeroed record of the type of a.
SecondLeg ==
  Map(target, TargetArg("ptr", Zero(source.t)), defaultTypeConvertMap, nextAddr)

\* C17: mapping a into a fresh b and b into a fresh a2 succeeds and a2 holds
\* the content of a, field for field, for every value of a.
C17_RoundTrip ==
  FirstLegDone =>
    /\ ~SecondLeg.panic /\ SecondLeg.err = NoErr
    /\ SameValue(SecondLeg.tgt, source)

(***************************************************************************)
(* C18.  Self-referential records.                                         *)
(***************************************************************************)
\* The number of records on the chain of Child pointers that starts at x.
RECURSIVE Levels(_)
Levels(x) ==
  IF x.v["Child"].v.addr = "" THEN 1 ELSE 1 + Levels(x.v["Child"].v.pt)

\* Record t is the mapping of record s, level by level: the same ID, and a
\* child that is the mapping of the child of s, down to the level where s
\* has none, where the child of t is last.
RECURSIVE ChainMapped(_, _, _)
ChainMapped(s, t, last) ==
  /\ t.v["ID"] = s.v["ID"]
  /\ IF s.v["Child"].v.addr = "" THEN t.v["Child"] = last
     ELSE /\ t.v["Child"].v.addr # ""
          /\ ChainMapped(s.v["Child"].v.pt, t.v["Child"].v.pt,
                         NilPtr(t.v["Child"].t))

\* A call was made with a Person chain as the source and a PersonData by
\* address as the target.
ChainCalled == MapperCalled /\ source # NilIface /\ target.t = PersonDataT

\* C18 as stated: the call returns, and the target chain has as many levels
\* as the source chain, level k being the mapping of level k and the last
\* level's child being empty.
C18_SameDepth ==
  ChainCalled =>
    /\ pc = "returned" /\ err = NoErr
    /\ Levels(target) = Levels(source)
    /\ ChainMapped(source, target, NilPtr(target.v["Child"].t))

\* C18, amended: the call returns and level k of the target is the mapping
\* of level k of the source; a source without any child leaves the target's
\* child as it was, so the chains have the same number of levels when the
\* source has a child or the target had none before the call.
C18_SameDepthFromEmpty ==
  ChainCalled =>
    /\ pc = "returned" /\ err = NoErr
    /\ ChainMapped(source, target, pre.v["Child"])
    /\ (source.v["Child"].v.addr # "" \/ pre.v["Child"].v.addr = "") =>
         Levels(target) = Levels(source)

\* A call on a chain of three levels over a target that held a child: the
\* target chain has three levels, the third without a child.
C18_Witness ==
  /\ ChainCalled /\ pc = "returned"
  /\ pre.v["Child"].v.addr # ""
  /\ Levels(source) = 3 /\ Levels(target) = 3
  /\ target.v["Child"].v.pt.v["Child"].v.pt.v["ID"].v = 70

(***************************************************************************)
(* C19.  Failures beneath a record field.                                  *)
(***************************************************************************)
\* What mapping into field n of the target record gives by itself, n being a
\* nested record or a pointer to one: the source value the field resolves to
\* is mapped into the record the field held, or its content into a zeroed
\* record.
Beneath(n) ==
  LET tf == FieldDecl(target.t, n)
      g == getSourceFieldValue(SourceRecord, tf)
  IN IF tf.type.k = "ptr"
     THEN mapValues(Indirect(g.val), Zero(Elem(tf.type)), FALSE, ConverterFnMap, 1)
     ELSE mapValues(g.val, pre.v[n], ~tf.exported, ConverterFnMap, 1)

\* The record fields of the target, held by value or through a pointer, that
\* are mapped field by field and beneath which a field fails.
FailingBeneath ==
  IF ~RecordToRecord THEN {}
  ELSE {n \in FieldNames(target.t) :
          LET tf == FieldDecl(target.t, n)
              g == getSourceFieldValue(SourceRecord, tf)
              rt == IF tf.type.k = "ptr" THEN Elem(tf.type) ELSE tf.type
          IN /\ Resolves(g)
             /\ rt.k = "struct"
             /\ {tf.type.n, rt.n} \cap DOMAIN ConverterFnMap = {}
             /\ tf.type.k = "ptr" => ~IsZero(g.val)
             /\ ~Beneath(n).panic
             /\ Beneath(n).err # NoErr}

\* C19: a failure beneath a record field of the target, held by value or
\* through a pointer, makes the call return an error that names that field
\* and wraps the error of the failure beneath it, which names the fields
\* further down; the call does not return success.
C19_NestedFailureReturned ==
  MapperCalled /\ FailingBeneath # {} =>
    /\ pc = "returned"
    /\ err.kind = "FieldError"
    /\ err.fieldName \in FailingBeneath
    /\ err.err = Beneath(err.fieldName).err

(***************************************************************************)
(* C20.  Directives that name nothing the source has.                      *)
(***************************************************************************)
\* The setting is a fromField directive naming a field record s does not
\* have, or a fromMethod directive naming a method s has under neither
\* receiver convention.
NamesNothing(parts, s) ==
  /\ Len(parts) >= 2
  /\ \/ parts[1] = "fromField" /\ parts[2] \notin FieldNames(s.t)
     \/ parts[1] = "fromMethod" /\ ~MethodByName(s, parts[2], TRUE)

\* The fields of the target record whose tag is one such directive.
DanglingFields ==
  IF ~RecordToRecord THEN {}
  ELSE {n \in FieldNames(target.t) :
          LET tag == FieldDecl(target.t, n).tag
          IN Len(tag) = 1 /\ NamesNothing(tag[1], SourceRecord)}

\* C20: after a call that returned, a target field whose directive names a
\* method or a field the source does not have holds what it held before the
\* call, also when the source has a field of the target field's own name.
C20_DanglingDirectiveSkipped ==
  MapperCalled /\ pc = "returned" =>
    \A n \in DanglingFields : target.v[n] = pre.v[n]

(***************************************************************************)
(* C21.  Pointer-shaped target locations.                                  *)
(***************************************************************************)
\* Location to, of pointer type, holds a pointer to what mapping the content
\* of the source value from gives.
PointsToMapped(from, to) ==
  /\ to.v.addr # ""
  /\ \E k \in 1..nextAddr :
       SameValue(to.v.pt, MappedValue(Indirect(from), Elem(to.t), k))

\* C21: after a successful call every pointer-shaped location the mapper was
\* applied to with a non-zero source value holds a pointer to the value
\* mapped from that source: a field of the target record, an element of a
\* target list of pointers (the target itself or a field of it), and the
\* target itself when it is a pointer.
C21_PointerLocationSet ==
  /\ (Succeeded /\ RecordToRecord) =>
       \A n \in FieldNames(target.t) :
         LET tf == FieldDecl(target.t, n)
             g == getSourceFieldValue(SourceRecord, tf)
         IN /\ (tf.type.k = "ptr" /\ Resolves(g) /\ ~IsZero(g.val)) =>
                 PointsToMapped(g.val, target.v[n])
            /\ ( /\ tf.type.k = "slice" /\ Elem(tf.type).k = "ptr"
                 /\ Resolves(g) /\ Indirect(g.val).t.k = "slice" ) =>
                 \A i \in 1..Len(Indirect(g.val).v.elems) :
                   ~IsZero(Indirect(g.val).v.elems[i]) =>
                     PointsToMapped(Indirect(g.val).v.elems[i],
                                    target.v[n].v.elems[i])
  /\ (Succeeded /\ target.t.k = "ptr" /\ ~IsZero(source)) =>
       PointsToMapped(source, target)

(***************************************************************************)
(* C22.  Passthrough targets fed by a value of another type.               *)
(***************************************************************************)
\* The kinds the default case of mapValues serves.
Passthrough(t) == t.k \notin {"ptr", "struct", "slice", "string", "invalid"}

\* The fields of the target record that are passthrough locations without a
\* converter and that the source feeds with a value of another type.
MismatchedFields ==
  IF ~RecordToRecord THEN {}
  ELSE {n \in FieldNames(target.t) :
          LET tf == FieldDecl(target.t, n)
              g == getSourceFieldValue(SourceRecord, tf)
          IN /\ Passthrough(tf.type)
             /\ tf.type.n \notin DOMAIN ConverterFnMap
             /\ Resolves(g)
             /\ g.val.t # tf.type}

\* The caller's target variable is itself a passthrough location and the
\* source is a value of another type.
MismatchedTarget ==
  /\ Passthrough(target.t)
  /\ source # NilIface
  /\ source.t # target.t

\* The error a call returned, without the field names wrapped around it.
RECURSIVE Cause(_)
Cause(e) == IF e.kind = "FieldError" THEN Cause(e.err) ELSE e

\* C22: a call that feeds a passthrough location without a converter with a
\* value of another type does not panic: it returns an IncompatibleAssignment
\* error, and the location holds what it held before the call, not a
\* converted value.
C22_IncompatibleAssignmentError ==
  /\ (MapperCalled /\ MismatchedFields # {}) =>
       /\ pc = "returned"
       /\ Cause(err).kind = "IncompatibleAssignment"
       /\ \A n \in MismatchedFields : target.v[n] = pre.v[n]
  /\ (MapperCalled /\ MismatchedTarget) =>
       /\ pc = "returned"
       /\ Cause(err).kind = "IncompatibleAssignment"
       /\ target = pre

(***************************************************************************)
(* C23.  Violated preconditions.                                           *)
(***************************************************************************)
\* A call of package mapper was made with an argument validateParameters is
\* to refuse: no source, or a target argument that is not the address of a
\* variable (nil, a plain value, or a nil pointer).
PreconditionViolated ==
  /\ op \in MapperOps /\ pc # "idle"
  /\ (source = NilIface \/ mode # "ptr")

\* The target argument was a nil pointer and the source a record.
TypedNilTarget ==
  /\ op \in MapperOps /\ pc # "idle"
  /\ mode = "typednil"
  /\ source # NilIface /\ SourceRecord.t.k = "struct"

\* C23: a call that violates a precondition does not panic and writes
\* nothing to the logger: it returns a ParameterError (nil argument or
\* target not a pointer).  In particular so does a call whose target
\* argument is a nil pointer and whose source is a record.
C23_PreconditionErrorReturned ==
  /\ PreconditionViolated =>
       /\ pc = "returned"
       /\ err.kind = "ParameterError"
       /\ logged = <<>>
  /\ TypedNilTarget =>
       /\ pc = "returned"
       /\ err \in {NewParamErrorNotNil("target"), ErrTargetParamNotPointer}
       /\ logged = <<>>

====
